---------------------------- MODULE Spec2Model ----------------------------
(***************************************************************************)
(* Conversation cost estimation of LibreChat: the pricing resolver         *)
(* (pricing-config: PRICING_CONFIG, getPricingForDate, calculateCost,      *)
(* getModelInfo), the server aggregator over persisted transactions        *)
(* (ConversationCost.js) and the client widget over in-memory messages     *)
(* (ConversationCost.tsx).                                                 *)
(*                                                                         *)
(* Units.  Unit prices are USD per 1,000,000 tokens; they are held here in *)
(* thousandths of a USD (0.075 is 75), so that tokens * price is a cost in *)
(* 10^-9 USD ("nano-USD") and every cost of the program is an integer.     *)
(* JavaScript's doubles are modelled as exact numbers.                     *)
(* A Date is [valid, sec, ms]: seconds since 1970-01-01T00:00:00Z and the  *)
(* milliseconds within the second; new Date(undefined) is the Invalid Date *)
(* (getTime() is NaN), every comparison with which is false.               *)
(***************************************************************************)
EXTENDS Integers, Sequences, FiniteSets, TLC

VARIABLES
    ctx,            \* which of the program's entry points this behaviour runs
    call,           \* pricing resolver: the arguments of the last call
    ret,            \* pricing resolver: what the last call returned
    pc,             \* calculateConversationCost: position in the function
    query,          \* how the promise of Transaction.find(...) settled
    transactions,   \* the documents Transaction.find(...).sort(...).lean() gave
    idx,            \* number of transactions the for-loop has processed
    costBreakdown,  \* running cost per category, nano-USD
    tokenUsage,     \* running token totals per category
    modelBreakdown, \* the Map modelId -> entry, in insertion order
    lastUpdated,    \* latest transaction date seen
    summary,        \* what calculateConversationCost returned (or null)
    display,        \* what getConversationCostDisplay returned (or null)
    messages,       \* client: the messages of the Recoil store
    memo,           \* client: the locals of the useMemo callback
    costData,       \* client: what the useMemo callback returned (or null)
    conversationIds, \* batch: the ids getMultipleConversationCosts was given
    database,       \* batch: which conversations the store holds, and how
    batchStart,     \* batch: the loop variable i
    batchPromises,  \* batch: the promises of the batch in flight
    results,        \* batch: the results object, or what the call returned
    hung            \* batch: the conversations whose query never settles

pricingVars == <<call, ret>>
serverVars == <<query, transactions, idx, costBreakdown, tokenUsage, modelBreakdown,
                lastUpdated, summary, display>>
clientVars == <<messages, memo, costData>>
batchVars == <<conversationIds, database, batchStart, batchPromises, results, hung>>

vars == <<ctx, pc, pricingVars, serverVars, clientVars, batchVars>>

null == [null |-> TRUE]

-----------------------------------------------------------------------------
(* Dates *)

\* Days from 1970-01-01 to the civil date y-m-d (proleptic Gregorian).
DaysFromCivil(y, m, d) ==
    LET yy  == IF m <= 2 THEN y - 1 ELSE y
        era == yy \div 400
        yoe == yy - era * 400
        mp  == IF m > 2 THEN m - 3 ELSE m + 9
        doy == (153 * mp + 2) \div 5 + d - 1
        doe == yoe * 365 + yoe \div 4 - yoe \div 100 + doy
    IN  era * 146097 + doe - 719468

\* new Date('YYYY-MM-DDThh:mm:ssZ'), and with milliseconds.
DateMs(y, m, d, hh, mi, ss, ms) ==
    [valid |-> TRUE,
     sec   |-> DaysFromCivil(y, m, d) * 86400 + hh * 3600 + mi * 60 + ss,
     ms    |-> ms]

Date(y, m, d, hh, mi, ss) == DateMs(y, m, d, hh, mi, ss, 0)

\* new Date(0)
Epoch == [valid |-> TRUE, sec |-> 0, ms |-> 0]

\* new Date(undefined): getTime() is NaN.
InvalidDate == [valid |-> FALSE, sec |-> 0, ms |-> 0]

\* a <= b on Dates (valueOf comparison; false when either side is NaN).
DateLE(a, b) ==
    /\ a.valid
    /\ b.valid
    /\ \/ a.sec < b.sec
       \/ a.sec = b.sec /\ a.ms <= b.ms

\* a > b on Dates.
DateGT(a, b) ==
    /\ a.valid
    /\ b.valid
    /\ \/ a.sec > b.sec
       \/ a.sec = b.sec /\ a.ms > b.ms

-----------------------------------------------------------------------------
(* pricing-config: the pricing table *)

P(from, prompt, completion) ==
    [effectiveFrom |-> from, prompt |-> prompt, completion |-> completion]

PCache(from, prompt, completion, write, read) ==
    [effectiveFrom |-> from, prompt |-> prompt, completion |-> completion,
     cache |-> [write |-> write, read |-> read]]

PReasoning(from, prompt, completion, tokens) ==
    [effectiveFrom |-> from, prompt |-> prompt, completion |-> completion,
     reasoning |-> [tokens |-> tokens]]

M(provider, category, pricing) ==
    [provider |-> provider, category |-> category, pricing |-> pricing]

PRICING_CONFIG ==
    [m \in {"gpt-4o", "gpt-4o-mini", "gpt-4", "gpt-4-turbo", "gpt-3.5-turbo",
            "o1", "o1-mini", "o1-preview",
            "claude-3-5-sonnet", "claude-3.5-sonnet", "claude-3-5-haiku",
            "claude-3.5-haiku", "claude-3-opus", "claude-3-sonnet",
            "claude-3-haiku",
            "gemini-1.5-pro", "gemini-1.5-flash", "gemini-1.5-flash-8b",
            "mistral-large", "mistral-small", "command-r-plus", "command-r"} |->
     CASE m = "gpt-4o" ->
            M("OpenAI", "gpt-4o", <<P(Date(2024, 5, 13, 0, 0, 0), 5000, 15000)>>)
       [] m = "gpt-4o-mini" ->
            M("OpenAI", "gpt-4o", <<P(Date(2024, 7, 18, 0, 0, 0), 150, 600)>>)
       [] m = "gpt-4" ->
            M("OpenAI", "gpt-4", <<P(Date(2024, 1, 1, 0, 0, 0), 30000, 60000)>>)
       [] m = "gpt-4-turbo" ->
            M("OpenAI", "gpt-4", <<P(Date(2024, 4, 9, 0, 0, 0), 10000, 30000)>>)
       [] m = "gpt-3.5-turbo" ->
            M("OpenAI", "gpt-3.5",
              <<P(Date(2024, 1, 25, 0, 0, 0), 500, 1500),
                [effectiveFrom |-> Date(2023, 11, 6, 0, 0, 0),
                 effectiveTo   |-> Date(2024, 1, 24, 23, 59, 59),
                 prompt |-> 1000, completion |-> 2000]>>)
       [] m = "o1" ->
            M("OpenAI", "o1",
              <<PReasoning(Date(2024, 12, 5, 0, 0, 0), 15000, 60000, 15000)>>)
       [] m = "o1-mini" ->
            M("OpenAI", "o1",
              <<PReasoning(Date(2024, 9, 12, 0, 0, 0), 3000, 12000, 3000)>>)
       [] m = "o1-preview" ->
            M("OpenAI", "o1",
              <<PReasoning(Date(2024, 9, 12, 0, 0, 0), 15000, 60000, 15000)>>)
       [] m = "claude-3-5-sonnet" ->
            M("Anthropic", "claude-3.5",
              <<PCache(Date(2024, 6, 20, 0, 0, 0), 3000, 15000, 3750, 300)>>)
       [] m = "claude-3.5-sonnet" ->
            M("Anthropic", "claude-3.5",
              <<PCache(Date(2024, 6, 20, 0, 0, 0), 3000, 15000, 3750, 300)>>)
       [] m = "claude-3-5-haiku" ->
            M("Anthropic", "claude-3.5",
              <<PCache(Date(2024, 11, 1, 0, 0, 0), 800, 4000, 1000, 80)>>)
       [] m = "claude-3.5-haiku" ->
            M("Anthropic", "claude-3.5",
              <<PCache(Date(2024, 11, 1, 0, 0, 0), 800, 4000, 1000, 80)>>)
       [] m = "claude-3-opus" ->
            M("Anthropic", "claude-3", <<P(Date(2024, 3, 4, 0, 0, 0), 15000, 75000)>>)
       [] m = "claude-3-sonnet" ->
            M("Anthropic", "claude-3", <<P(Date(2024, 3, 4, 0, 0, 0), 3000, 15000)>>)
       [] m = "claude-3-haiku" ->
            M("Anthropic", "claude-3",
              <<PCache(Date(2024, 3, 4, 0, 0, 0), 250, 1250, 300, 30)>>)
       [] m = "gemini-1.5-pro" ->
            M("Google", "gemini-1.5", <<P(Date(2024, 2, 15, 0, 0, 0), 2500, 10000)>>)
       [] m = "gemini-1.5-flash" ->
            M("Google", "gemini-1.5", <<P(Date(2024, 5, 14, 0, 0, 0), 150, 600)>>)
       [] m = "gemini-1.5-flash-8b" ->
            M("Google", "gemini-1.5", <<P(Date(2024, 10, 3, 0, 0, 0), 75, 300)>>)
       [] m = "mistral-large" ->
            M("Mistral", "mistral-large", <<P(Date(2024, 1, 1, 0, 0, 0), 2000, 6000)>>)
       [] m = "mistral-small" ->
            M("Mistral", "mistral-small", <<P(Date(2024, 1, 1, 0, 0, 0), 200, 600)>>)
       [] m = "command-r-plus" ->
            M("Cohere", "command-r", <<P(Date(2024, 4, 4, 0, 0, 0), 3000, 15000)>>)
       [] m = "command-r" ->
            M("Cohere", "command-r", <<P(Date(2024, 3, 11, 0, 0, 0), 500, 1500)>>)]

\* period.effectiveTo ? new Date(period.effectiveTo) : null
HasEffectiveTo(period) == "effectiveTo" \in DOMAIN period

\* The test with the start of the period excluded.
PeriodMatches_ExclusiveFrom(period, date) ==
    /\ DateGT(date, period.effectiveFrom)
    /\ \/ ~HasEffectiveTo(period)
       \/ DateLE(date, period.effectiveTo)

\* date >= effectiveFrom && (!effectiveTo || date <= effectiveTo)
PeriodMatches(period, date) ==
    /\ DateLE(period.effectiveFrom, date)
    /\ \/ ~HasEffectiveTo(period)
       \/ DateLE(date, period.effectiveTo)

\* The for-of scan of modelConfig.pricing from position k on: the first
\* period that matches, else the last entry of the list (or null).
RECURSIVE ScanPricing(_, _, _)
ScanPricing(pricing, date, k) ==
    IF k > Len(pricing)
    THEN IF Len(pricing) = 0 THEN null ELSE pricing[Len(pricing)]
    ELSE IF PeriodMatches(pricing[k], date)
         THEN pricing[k]
         ELSE ScanPricing(pricing, date, k + 1)

getPricingForDate(modelId, date) ==
    IF modelId \notin DOMAIN PRICING_CONFIG
    THEN null
    ELSE ScanPricing(PRICING_CONFIG[modelId].pricing, date, 1)


\* tokenUsage.f || 0 on an object whose field may be absent.
Field(obj, f) == IF f \in DOMAIN obj THEN obj[f] ELSE 0

\* pricing.cache?.write, pricing.cache?.read, pricing.reasoning?.tokens
\* (0 stands for undefined: both are falsy and neither is charged).
CacheWritePrice(pricing) == IF "cache" \in DOMAIN pricing THEN pricing.cache.write ELSE 0
CacheReadPrice(pricing) == IF "cache" \in DOMAIN pricing THEN pricing.cache.read ELSE 0
ReasoningPrice(pricing) ==
    IF "reasoning" \in DOMAIN pricing THEN pricing.reasoning.tokens ELSE 0

\* The costs object with cache reads charged at the cache write price.
CostsOf_ReadAtWritePrice(pricing, usage) ==
    LET prompt     == IF Field(usage, "promptTokens") # 0
                      THEN usage.promptTokens * pricing.prompt ELSE 0
        completion == IF Field(usage, "completionTokens") # 0
                      THEN usage.completionTokens * pricing.completion ELSE 0
        cacheWrite == IF Field(usage, "cacheWriteTokens") # 0 /\ CacheWritePrice(pricing) # 0
                      THEN usage.cacheWriteTokens * pricing.cache.write ELSE 0
        cacheRead  == IF Field(usage, "cacheReadTokens") # 0 /\ CacheWritePrice(pricing) # 0
                      THEN usage.cacheReadTokens * pricing.cache.write ELSE 0
        reasoning  == IF Field(usage, "reasoningTokens") # 0 /\ ReasoningPrice(pricing) # 0
                      THEN usage.reasoningTokens * pricing.reasoning.tokens ELSE 0
    IN  [prompt |-> prompt, completion |-> completion, cacheWrite |-> cacheWrite,
         cacheRead |-> cacheRead, reasoning |-> reasoning,
         total |-> prompt + completion + cacheWrite + cacheRead + reasoning]

\* The costs object of calculateCost once the five components are set.
CostsOf(pricing, usage) ==
    LET prompt     == IF Field(usage, "promptTokens") # 0
                      THEN usage.promptTokens * pricing.prompt ELSE 0
        completion == IF Field(usage, "completionTokens") # 0
                      THEN usage.completionTokens * pricing.completion ELSE 0
        cacheWrite == IF Field(usage, "cacheWriteTokens") # 0 /\ CacheWritePrice(pricing) # 0
                      THEN usage.cacheWriteTokens * pricing.cache.write ELSE 0
        cacheRead  == IF Field(usage, "cacheReadTokens") # 0 /\ CacheReadPrice(pricing) # 0
                      THEN usage.cacheReadTokens * pricing.cache.read ELSE 0
        reasoning  == IF Field(usage, "reasoningTokens") # 0 /\ ReasoningPrice(pricing) # 0
                      THEN usage.reasoningTokens * pricing.reasoning.tokens ELSE 0
    IN  [prompt |-> prompt, completion |-> completion, cacheWrite |-> cacheWrite,
         cacheRead |-> cacheRead, reasoning |-> reasoning,
         total |-> prompt + completion + cacheWrite + cacheRead + reasoning]

\* What a call of calculateCost does: it returns null for a model without
\* pricing, throws RangeError when date.toISOString() is applied to the
\* Invalid Date, and returns the costs otherwise.
RangeError == [throws |-> "RangeError"]

calculateCost(modelId, usage, date) ==
    LET pricing == getPricingForDate(modelId, date)
        costs   == CostsOf(pricing, usage)
    IN  IF pricing = null
        THEN null
        ELSE IF ~date.valid
             THEN RangeError
             ELSE [prompt |-> costs.prompt, completion |-> costs.completion,
                   cacheWrite |-> costs.cacheWrite, cacheRead |-> costs.cacheRead,
                   reasoning |-> costs.reasoning, total |-> costs.total,
                   modelId |-> modelId, pricing |-> pricing]

IsCost(c) == c # null /\ c # RangeError

\* getModelInfo(modelId)
getModelInfo(modelId) ==
    IF modelId \notin DOMAIN PRICING_CONFIG
    THEN null
    ELSE LET config == PRICING_CONFIG[modelId] IN
         [modelId |-> modelId, provider |-> config.provider,
          category |-> config.category,
          supportsCaching |->
              \E k \in 1..Len(config.pricing) : "cache" \in DOMAIN config.pricing[k],
          supportsReasoning |->
              \E k \in 1..Len(config.pricing) : "reasoning" \in DOMAIN config.pricing[k]]

-----------------------------------------------------------------------------
(* ConversationCost.js: calculateConversationCost *)

NoModel == ""

Abs(x) == IF x < 0 THEN 0 - x ELSE x

\* new Date(transaction.createdAt)
TransactionDate(transaction) ==
    IF "createdAt" \in DOMAIN transaction THEN transaction.createdAt ELSE InvalidDate

ZeroCosts ==
    [prompt |-> 0, completion |-> 0, cacheWrite |-> 0, cacheRead |-> 0, reasoning |-> 0]

ZeroTokens ==
    [promptTokens |-> 0, completionTokens |-> 0, cacheWriteTokens |-> 0,
     cacheReadTokens |-> 0, reasoningTokens |-> 0]

\* The token counts taken as stored, sign included.
CurrentTokenUsage_Signed(transaction) ==
    IF transaction.tokenType = "prompt"
    THEN IF "inputTokens" \in DOMAIN transaction
         THEN [promptTokens     |-> Field(transaction, "inputTokens"),
               cacheWriteTokens |-> Field(transaction, "writeTokens"),
               cacheReadTokens  |-> Field(transaction, "readTokens")]
         ELSE [promptTokens |-> Field(transaction, "rawAmount")]
    ELSE IF transaction.tokenType = "completion"
         THEN [completionTokens |-> Field(transaction, "rawAmount")]
         ELSE IF transaction.tokenType = "reasoning"
              THEN [reasoningTokens |-> Field(transaction, "rawAmount")]
              ELSE <<>>

\* The token counts of one transaction, by its type and structure
\* (currentTokenUsage: only the fields the branch assigns exist).
CurrentTokenUsage(transaction) ==
    IF transaction.tokenType = "prompt"
    THEN IF "inputTokens" \in DOMAIN transaction
         THEN [promptTokens     |-> Abs(Field(transaction, "inputTokens")),
               cacheWriteTokens |-> Abs(Field(transaction, "writeTokens")),
               cacheReadTokens  |-> Abs(Field(transaction, "readTokens"))]
         ELSE [promptTokens |-> Abs(Field(transaction, "rawAmount"))]
    ELSE IF transaction.tokenType = "completion"
         THEN [completionTokens |-> Abs(Field(transaction, "rawAmount"))]
         ELSE IF transaction.tokenType = "reasoning"
              THEN [reasoningTokens |-> Abs(Field(transaction, "rawAmount"))]
              ELSE <<>>

\* usage totals += currentTokenUsage.f || 0, for the five counters.
AddTokens(totals, usage) ==
    [promptTokens     |-> totals.promptTokens + Field(usage, "promptTokens"),
     completionTokens |-> totals.completionTokens + Field(usage, "completionTokens"),
     cacheWriteTokens |-> totals.cacheWriteTokens + Field(usage, "cacheWriteTokens"),
     cacheReadTokens  |-> totals.cacheReadTokens + Field(usage, "cacheReadTokens"),
     reasoningTokens  |-> totals.reasoningTokens + Field(usage, "reasoningTokens")]

\* costBreakdown.c += cost.c, for the five categories.
AddCosts(breakdown, cost) ==
    [prompt     |-> breakdown.prompt + cost.prompt,
     completion |-> breakdown.completion + cost.completion,
     cacheWrite |-> breakdown.cacheWrite + cost.cacheWrite,
     cacheRead  |-> breakdown.cacheRead + cost.cacheRead,
     reasoning  |-> breakdown.reasoning + cost.reasoning]

\* Math.abs(transaction.tokenValue || 0) / 1000000 USD, in nano-USD.
FallbackCost(transaction) == Abs(Field(transaction, "tokenValue")) * 1000

\* A fallback that leaves the conversation's costBreakdown alone.
AddFallback_ModelOnly(breakdown, transaction) == breakdown

\* costBreakdown[tokenType === 'completion' ? 'completion' : 'prompt'] += fallbackCost
AddFallback(breakdown, transaction) ==
    IF transaction.tokenType = "completion"
    THEN [breakdown EXCEPT !.completion = @ + FallbackCost(transaction)]
    ELSE [breakdown EXCEPT !.prompt = @ + FallbackCost(transaction)]

\* Position of modelId's entry in the Map (0 when it has none).
EntryIndex(breakdown, modelId) ==
    IF \E k \in 1..Len(breakdown) : breakdown[k].modelId = modelId
    THEN CHOOSE k \in 1..Len(breakdown) : breakdown[k].modelId = modelId
    ELSE 0

NewEntry(modelId) ==
    [modelId |-> modelId, cost |-> 0, tokenUsage |-> ZeroTokens, transactionCount |-> 0]

\* if (!modelBreakdown.has(modelId)) modelBreakdown.set(modelId, {...})
EnsureEntry(breakdown, modelId) ==
    IF EntryIndex(breakdown, modelId) = 0
    THEN Append(breakdown, NewEntry(modelId))
    ELSE breakdown

\* new Date(): the time of the call, later than every stored transaction.
Now == Date(2026, 1, 1, 0, 0, 0)

\* A call that leaves the date out and so prices at new Date().
CostOfTransaction_Now(transaction, usage) ==
    calculateCost(transaction.model, usage, Now)

\* const cost = calculateCost(modelId, currentTokenUsage, transactionDate)
CostOfTransaction(transaction, usage) ==
    calculateCost(transaction.model, usage, TransactionDate(transaction))

\* The state of the loop after the body has run for one transaction that
\* names a model: [costBreakdown, tokenUsage, modelBreakdown], or RangeError
\* when calculateCost throws.
ProcessBody(costs0, tokens0, breakdown0, transaction) ==
    LET modelId  == transaction.model
        ensured  == EnsureEntry(breakdown0, modelId)
        k        == EntryIndex(ensured, modelId)
        counted  == [ensured EXCEPT ![k].transactionCount = @ + 1]
        usage    == CurrentTokenUsage(transaction)
        cost     == CostOfTransaction(transaction, usage)
    IN  IF cost = RangeError
        THEN RangeError
        ELSE IF cost # null
             THEN [costBreakdown  |-> AddCosts(costs0, cost),
                   modelBreakdown |->
                       [counted EXCEPT ![k].cost = @ + cost.total,
                                       ![k].tokenUsage = AddTokens(@, usage)],
                   tokenUsage     |-> AddTokens(tokens0, usage)]
             ELSE [costBreakdown  |-> AddFallback(costs0, transaction),
                   modelBreakdown |->
                       [counted EXCEPT ![k].cost = @ + FallbackCost(transaction)],
                   tokenUsage     |-> AddTokens(tokens0, usage)]

\* A rounding that cuts the digits after the fifth decimal place.
Round5_Truncate(x) == (x \div 10000) * 10000

\* Math.round(x * 100000) / 100000
Round5(x) == ((x + 5000) \div 10000) * 10000

\* An insertion that puts an entry before the earlier entries of equal cost.
RECURSIVE InsertByCost_TiesReversed(_, _)
InsertByCost_TiesReversed(sorted, entry) ==
    IF sorted = <<>>
    THEN <<entry>>
    ELSE IF sorted[Len(sorted)].cost > entry.cost
         THEN Append(sorted, entry)
         ELSE Append(InsertByCost_TiesReversed(SubSeq(sorted, 1, Len(sorted) - 1), entry),
                     sorted[Len(sorted)])

\* Array.prototype.sort((a, b) => b.cost - a.cost): stable, by cost descending.
RECURSIVE InsertByCost(_, _)
InsertByCost(sorted, entry) ==
    IF sorted = <<>>
    THEN <<entry>>
    ELSE IF sorted[Len(sorted)].cost >= entry.cost
         THEN Append(sorted, entry)
         ELSE Append(InsertByCost(SubSeq(sorted, 1, Len(sorted) - 1), entry),
                     sorted[Len(sorted)])

RECURSIVE SortByCost(_)
SortByCost(entries) ==
    IF entries = <<>>
    THEN <<>>
    ELSE InsertByCost(SortByCost(SubSeq(entries, 1, Len(entries) - 1)),
                      entries[Len(entries)])

\* { ...model, provider: modelInfo?.provider || 'Unknown', category: ... }
WithModelInfo(entry) ==
    LET modelInfo == getModelInfo(entry.modelId) IN
    [modelId |-> entry.modelId, cost |-> entry.cost, tokenUsage |-> entry.tokenUsage,
     transactionCount |-> entry.transactionCount,
     provider |-> IF modelInfo = null THEN "Unknown" ELSE modelInfo.provider,
     category |-> IF modelInfo = null THEN "Unknown" ELSE modelInfo.category]

\* The object calculateConversationCost returns after the loop.
BuildSummary(costs0, tokens0, breakdown0, updated) ==
    LET totalCost == costs0.prompt + costs0.completion + costs0.cacheWrite
                     + costs0.cacheRead + costs0.reasoning
    IN  [totalCost      |-> Round5(totalCost),
         costBreakdown  |-> [prompt     |-> Round5(costs0.prompt),
                             completion |-> Round5(costs0.completion),
                             cacheWrite |-> Round5(costs0.cacheWrite),
                             cacheRead  |-> Round5(costs0.cacheRead),
                             reasoning  |-> Round5(costs0.reasoning)],
         tokenUsage     |-> tokens0,
         modelBreakdown |->
             SortByCost([k \in 1..Len(breakdown0) |-> WithModelInfo(breakdown0[k])]),
         lastUpdated    |-> updated]

-----------------------------------------------------------------------------
(* ConversationCost.js: getConversationCostDisplay *)

\* cost.toFixed(digits) of a cost in nano-USD: the dollars, and the `digits`
\* decimals as a number (round half up).
Pow10(n) == IF n = 0 THEN 1 ELSE IF n = 1 THEN 10 ELSE IF n = 2 THEN 100
            ELSE IF n = 3 THEN 1000 ELSE IF n = 4 THEN 10000 ELSE IF n = 5 THEN 100000
            ELSE IF n = 6 THEN 1000000 ELSE IF n = 7 THEN 10000000
            ELSE IF n = 8 THEN 100000000 ELSE 1000000000

toFixed(cost, digits) ==
    LET unit   == Pow10(9 - digits)
        scaled == (cost + unit \div 2) \div unit
    IN  [dollars  |-> scaled \div Pow10(digits),
         decimals |-> scaled % Pow10(digits),
         digits   |-> digits]

\* A formatter whose first two tests are cost <= 0.001 and cost <= 0.01.
formatCost_InclusiveThresholds(cost) ==
    IF cost <= 1000000
    THEN [literal |-> "<$0.001"]
    ELSE IF cost <= 10000000
         THEN [literal |-> "$"] @@ toFixed(cost, 4)
         ELSE IF cost < 1000000000
              THEN [literal |-> "$"] @@ toFixed(cost, 3)
              ELSE [literal |-> "$"] @@ toFixed(cost, 2)

\* The string formatCost builds: a literal, or "$" followed by a toFixed.
formatCost(cost) ==
    IF cost < 1000000
    THEN [literal |-> "<$0.001"]
    ELSE IF cost < 10000000
         THEN [literal |-> "$"] @@ toFixed(cost, 4)
         ELSE IF cost < 1000000000
              THEN [literal |-> "$"] @@ toFixed(cost, 3)
              ELSE [literal |-> "$"] @@ toFixed(cost, 2)

\* A display that names the model of the last entry of the list.
DisplayOf_LastEntry(costSummary) ==
    [totalCost    |-> formatCost(costSummary.totalCost),
     totalCostRaw |-> costSummary.totalCost,
     primaryModel |-> IF Len(costSummary.modelBreakdown) > 0
                      THEN costSummary.modelBreakdown[Len(costSummary.modelBreakdown)].modelId
                      ELSE "Unknown",
     totalTokens  |-> costSummary.tokenUsage.promptTokens
                      + costSummary.tokenUsage.completionTokens,
     lastUpdated  |-> costSummary.lastUpdated]

\* The object getConversationCostDisplay returns for a summary.
DisplayOf(costSummary) ==
    [totalCost    |-> formatCost(costSummary.totalCost),
     totalCostRaw |-> costSummary.totalCost,
     primaryModel |-> IF Len(costSummary.modelBreakdown) > 0
                         /\ costSummary.modelBreakdown[1].modelId # NoModel
                      THEN costSummary.modelBreakdown[1].modelId
                      ELSE "Unknown",
     totalTokens  |-> costSummary.tokenUsage.promptTokens
                      + costSummary.tokenUsage.completionTokens,
     lastUpdated  |-> costSummary.lastUpdated]

-----------------------------------------------------------------------------
(* Inputs *)

\* Longest list of documents a query returns.
MaxTransactions == 2

UnknownModel == "unknown-model-xyz"

Nov2023 == Date(2023, 11, 10, 0, 0, 0)
Jun2024 == Date(2024, 6, 1, 0, 0, 0)

\* Models and creation dates of the stored transactions; a document without
\* createdAt is given the Invalid Date here and stored without the field.
SampleModels == {"gpt-3.5-turbo", "claude-3-5-sonnet", "o1", UnknownModel}
SampleDates == {InvalidDate, Nov2023, Jun2024}

\* The token fields of a ledger entry: debits are negative.
RegularPrompt ==
    [tokenType |-> "prompt", rawAmount |-> 0 - 1000, tokenValue |-> 0 - 1500]
StructuredPrompt ==
    [tokenType |-> "prompt", inputTokens |-> 0 - 800, writeTokens |-> 0 - 500,
     readTokens |-> 0 - 300, rawAmount |-> 0 - 1600, tokenValue |-> 0 - 2400]
Shapes ==
    {RegularPrompt, StructuredPrompt,
     [tokenType |-> "completion", rawAmount |-> 0 - 1000, tokenValue |-> 0 - 1500],
     [tokenType |-> "completion", rawAmount |-> 7, tokenValue |-> 7],
     [tokenType |-> "completion", rawAmount |-> 0, tokenValue |-> 0],
     [tokenType |-> "reasoning", rawAmount |-> 0 - 2000, tokenValue |-> 0 - 3000],
     [tokenType |-> "credits", rawAmount |-> 1000]}

Stamp(date) == IF date.valid THEN [createdAt |-> date] ELSE <<>>

Doc(model, date, shape) == [model |-> model] @@ Stamp(date) @@ shape

Transactions ==
    {Doc(m, d, sh) : m \in SampleModels, d \in SampleDates, sh \in Shapes}
    \cup {Doc(NoModel, d, sh) : d \in SampleDates, sh \in {RegularPrompt, StructuredPrompt}}

\* .sort({ createdAt: 1 }): ascending, documents without the field first.
SortedByCreatedAt(docs) ==
    \A i, j \in 1..Len(docs) :
        i < j => ~DateGT(TransactionDate(docs[i]), TransactionDate(docs[j]))
                 /\ (TransactionDate(docs[j]).valid \/ ~TransactionDate(docs[i]).valid)

pending == [pending |-> TRUE]
MongoError == [throws |-> "MongoError"]

IsRejected(p) == p = RangeError \/ p = MongoError
IsSummary(p) == p # pending /\ p # null /\ ~IsRejected(p)

-----------------------------------------------------------------------------
(* The server: one call of getConversationCostDisplay *)

ServerIdle ==
    /\ query = "pending"
    /\ transactions = <<>>
    /\ idx = 0
    /\ costBreakdown = ZeroCosts
    /\ tokenUsage = ZeroTokens
    /\ modelBreakdown = <<>>
    /\ lastUpdated = Epoch
    /\ summary = pending
    /\ display = pending

PricingIdle == call = null /\ ret = null

ClientIdle ==
    /\ messages = <<>>
    /\ memo = [i |-> 0, totalCost |-> 0, totalTokens |-> 0, modelCosts |-> <<>>]
    /\ costData = pending

BatchIdle ==
    /\ conversationIds = <<>>
    /\ database = 0
    /\ batchStart = 0
    /\ batchPromises = <<>>
    /\ results = pending
    /\ hung = {}

InitServer ==
    /\ ctx = "server"
    /\ pc = "start"
    /\ ServerIdle
    /\ PricingIdle
    /\ ClientIdle
    /\ BatchIdle

\* An early return that tests only for a missing result.
NoTransactions_NullOnly(settled, docs) == settled = "absent"

\* if (!transactions || transactions.length === 0)
NoTransactions(settled, docs) == settled = "absent" \/ Len(docs) = 0

\* The rest of calculateConversationCost's prologue once the query has
\* given `docs`: the early return of null, or entry into the loop.
Fetched(settled, docs) ==
    /\ query' = settled
    /\ transactions' = docs
    /\ IF NoTransactions(settled, docs)
       THEN summary' = null /\ pc' = "returned"
       ELSE pc' = "loop" /\ UNCHANGED summary

\* const transactions = await Transaction.find(query).sort(...).lean(), the
\* early return for no transactions, and the initialisation of the totals;
\* a rejected query is logged and rethrown by the catch block.
Find ==
    /\ ctx = "server"
    /\ pc = "start"
    /\ UNCHANGED <<ctx, batchVars, pricingVars, clientVars, idx, costBreakdown, tokenUsage,
                   modelBreakdown, lastUpdated, display>>
    /\ \/ \E n \in 0..MaxTransactions :
            \E docs \in [1..n -> Transactions] :
                SortedByCreatedAt(docs) /\ Fetched("docs", docs)
       \/ Fetched("absent", <<>>)
       \/ /\ query' = "rejected"
          /\ transactions' = <<>>
          /\ summary' = MongoError
          /\ pc' = "returned"

\* One iteration of for (const transaction of transactions).
ProcessTransaction ==
    /\ ctx = "server"
    /\ pc = "loop"
    /\ idx < Len(transactions)
    /\ LET transaction == transactions[idx + 1]
           transactionDate == TransactionDate(transaction)
           body == ProcessBody(costBreakdown, tokenUsage, modelBreakdown, transaction)
       IN  /\ lastUpdated' = IF DateGT(transactionDate, lastUpdated)
                             THEN transactionDate ELSE lastUpdated
           /\ idx' = idx + 1
           /\ IF transaction.model = NoModel
              THEN UNCHANGED <<pc, costBreakdown, tokenUsage, modelBreakdown, summary>>
              ELSE IF body = RangeError
                   THEN /\ pc' = "returned"
                        /\ summary' = RangeError
                        /\ UNCHANGED <<costBreakdown, tokenUsage, modelBreakdown>>
                   ELSE /\ costBreakdown' = body.costBreakdown
                        /\ tokenUsage' = body.tokenUsage
                        /\ modelBreakdown' = body.modelBreakdown
                        /\ UNCHANGED <<pc, summary>>
    /\ UNCHANGED <<ctx, batchVars, pricingVars, clientVars, query, transactions, display>>

\* The code after the loop: total, model info, sort, rounding, return.
Return ==
    /\ ctx = "server"
    /\ pc = "loop"
    /\ idx = Len(transactions)
    /\ summary' = BuildSummary(costBreakdown, tokenUsage, modelBreakdown, lastUpdated)
    /\ pc' = "returned"
    /\ UNCHANGED <<ctx, batchVars, pricingVars, clientVars, query, transactions, idx,
                   costBreakdown, tokenUsage, modelBreakdown, lastUpdated, display>>

\* getConversationCostDisplay once calculateConversationCost has settled:
\* null for no summary, null from the catch block, the display otherwise.
Display ==
    /\ ctx = "server"
    /\ pc = "returned"
    /\ display' = IF IsRejected(summary) \/ summary = null
                  THEN null
                  ELSE DisplayOf(summary)
    /\ pc' = "done"
    /\ UNCHANGED <<ctx, batchVars, pricingVars, clientVars, query, transactions, idx,
                   costBreakdown, tokenUsage, modelBreakdown, lastUpdated, summary>>

NextServer == Find \/ ProcessTransaction \/ Return \/ Display

Spec == InitServer /\ [][NextServer]_vars

-----------------------------------------------------------------------------
(* The pricing resolver called on its own *)

PricingModels == DOMAIN PRICING_CONFIG \cup {UnknownModel, NoModel}

PricingDates ==
    {InvalidDate, Epoch, Nov2023, Jun2024,
     Date(2023, 11, 5, 23, 59, 59), DateMs(2023, 11, 6, 0, 0, 0, 1),
     DateMs(2024, 1, 24, 23, 59, 58, 999), DateMs(2024, 1, 24, 23, 59, 59, 500),
     DateMs(2024, 1, 25, 0, 0, 0, 1), Date(2024, 12, 10, 0, 0, 0)}
    \cup {PRICING_CONFIG[m].pricing[k].effectiveFrom :
            m \in DOMAIN PRICING_CONFIG, k \in {1}}
    \cup {PRICING_CONFIG["gpt-3.5-turbo"].pricing[2].effectiveFrom,
          PRICING_CONFIG["gpt-3.5-turbo"].pricing[2].effectiveTo}

TokenUsages ==
    {<<>>,
     [promptTokens |-> 500],
     [completionTokens |-> 1000],
     [promptTokens |-> 0, completionTokens |-> 1000],
     [promptTokens |-> 0 - 200, completionTokens |-> 700],
     [promptTokens |-> 500, completionTokens |-> 1000, reasoningTokens |-> 2000],
     [completionTokens |-> 1000, cacheWriteTokens |-> 500, cacheReadTokens |-> 300],
     [promptTokens |-> 800, cacheWriteTokens |-> 500, cacheReadTokens |-> 0,
      reasoningTokens |-> 100]}

InitPricing ==
    /\ ctx = "pricing"
    /\ pc = "idle"
    /\ ServerIdle
    /\ PricingIdle
    /\ ClientIdle
    /\ BatchIdle

CallGetPricingForDate ==
    /\ ctx = "pricing"
    /\ call = null
    /\ \E modelId \in PricingModels, date \in PricingDates :
        /\ call' = [fn |-> "getPricingForDate", modelId |-> modelId, date |-> date]
        /\ ret' = getPricingForDate(modelId, date)
    /\ UNCHANGED <<ctx, batchVars, pc, serverVars, clientVars>>

CallCalculateCost ==
    /\ ctx = "pricing"
    /\ call = null
    /\ \E modelId \in PricingModels, usage \in TokenUsages, date \in PricingDates :
        /\ call' = [fn |-> "calculateCost", modelId |-> modelId,
                    tokenUsage |-> usage, date |-> date]
        /\ ret' = calculateCost(modelId, usage, date)
    /\ UNCHANGED <<ctx, batchVars, pc, serverVars, clientVars>>

NextPricing == CallGetPricingForDate \/ CallCalculateCost

SpecPricing == InitPricing /\ [][NextPricing]_vars

-----------------------------------------------------------------------------
(* Properties of the pricing resolver *)

\* a is strictly earlier than b (both valid).
Earlier(a, b) == a.sec < b.sec \/ (a.sec = b.sec /\ a.ms < b.ms)

\* date lies in [effectiveFrom, effectiveTo], the end open when absent.
InPeriod(period, date) ==
    /\ date.valid
    /\ ~Earlier(date, period.effectiveFrom)
    /\ "effectiveTo" \in DOMAIN period => ~Earlier(period.effectiveTo, date)

\* The reference: the first listed period containing the date, else the
\* last listed period; null for a model the table does not hold.
RefPricing(modelId, date) ==
    IF modelId \notin DOMAIN PRICING_CONFIG
    THEN null
    ELSE LET pricing == PRICING_CONFIG[modelId].pricing
             hits    == {k \in 1..Len(pricing) : InPeriod(pricing[k], date)}
         IN  IF hits = {}
             THEN pricing[Len(pricing)]
             ELSE pricing[CHOOSE k \in hits : \A h \in hits : k <= h]

Called(fn) == call # null /\ call.fn = fn

\* C1: for every model and date getPricingForDate returns the first listed
\* period whose inclusive interval contains the date, the last listed
\* period when none does, and null for a model absent from the table.
C1_GetPricingForDateIsReference ==
    Called("getPricingForDate") => ret = RefPricing(call.modelId, call.date)

\* A date inside the second listed period of gpt-3.5-turbo, on its last
\* second, resolved to that period and not to the first listed one.
C1_Witness ==
    /\ Called("getPricingForDate")
    /\ call.modelId = "gpt-3.5-turbo"
    /\ call.date = Date(2024, 1, 24, 23, 59, 59)
    /\ ret = PRICING_CONFIG["gpt-3.5-turbo"].pricing[2]
    /\ ret # PRICING_CONFIG["gpt-3.5-turbo"].pricing[1]

\* The cost of one category: tokens * unit price when the usage has the
\* count and the period has the price, 0 otherwise.
CategoryCost(usage, tokens, hasPrice, price) ==
    IF tokens \in DOMAIN usage /\ hasPrice THEN usage[tokens] * price ELSE 0

\* C3: with a resolved pricing period, calculateCost sets each of the five
\* category costs to tokens * unitPrice / 1,000,000 when both the token count
\* and the unit price exist and to 0 otherwise, and total to their sum.
C3_CalculateCostPerCategory ==
    (Called("calculateCost") /\ IsCost(ret)) =>
        LET usage   == call.tokenUsage
            pricing == RefPricing(call.modelId, call.date)
        IN  /\ ret.prompt = CategoryCost(usage, "promptTokens", TRUE, pricing.prompt)
            /\ ret.completion =
                   CategoryCost(usage, "completionTokens", TRUE, pricing.completion)
            /\ ret.cacheWrite =
                   CategoryCost(usage, "cacheWriteTokens", "cache" \in DOMAIN pricing,
                                IF "cache" \in DOMAIN pricing THEN pricing.cache.write ELSE 0)
            /\ ret.cacheRead =
                   CategoryCost(usage, "cacheReadTokens", "cache" \in DOMAIN pricing,
                                IF "cache" \in DOMAIN pricing THEN pricing.cache.read ELSE 0)
            /\ ret.reasoning =
                   CategoryCost(usage, "reasoningTokens", "reasoning" \in DOMAIN pricing,
                                IF "reasoning" \in DOMAIN pricing
                                THEN pricing.reasoning.tokens ELSE 0)
            /\ ret.total = ret.prompt + ret.completion + ret.cacheWrite
                           + ret.cacheRead + ret.reasoning

\* claude-3-5-sonnet with 1000 completion, 500 cache-write and 300 cache-read
\* tokens: 0.015, 0.001875 and 0.00009 USD.
C3_Witness ==
    /\ Called("calculateCost")
    /\ call.modelId = "claude-3-5-sonnet"
    /\ call.tokenUsage =
           [completionTokens |-> 1000, cacheWriteTokens |-> 500, cacheReadTokens |-> 300]
    /\ IsCost(ret)
    /\ ret.completion = 15000000
    /\ ret.cacheWrite = 1875000
    /\ ret.cacheRead = 90000
    /\ ret.prompt = 0
    /\ ret.reasoning = 0
    /\ ret.total = 16965000

-----------------------------------------------------------------------------
(* Properties of calculateConversationCost *)

\* date is at or after the earliest effectiveFrom of the model's periods.
NotBeforeEarliest(modelId, date) ==
    /\ date.valid
    /\ \E k \in 1..Len(PRICING_CONFIG[modelId].pricing) :
           ~Earlier(date, PRICING_CONFIG[modelId].pricing[k].effectiveFrom)

\* C22: for a model of PRICING_CONFIG and a date at or after the model's
\* earliest effectiveFrom, getPricingForDate returns a period whose
\* [effectiveFrom, effectiveTo] interval contains the date.
C22_PeriodContainsDate ==
    (/\ Called("getPricingForDate")
     /\ call.modelId \in DOMAIN PRICING_CONFIG
     /\ NotBeforeEarliest(call.modelId, call.date)) =>
        InPeriod(ret, call.date)

Categories == {"prompt", "completion", "cacheWrite", "cacheRead", "reasoning"}

TokenCategories ==
    {"promptTokens", "completionTokens", "cacheWriteTokens", "cacheReadTokens",
     "reasoningTokens"}

Priced(modelId) == modelId \in DOMAIN PRICING_CONFIG

\* The server has a result or is still computing one (it has not thrown).
Running == ctx = "server" /\ ~IsRejected(summary)

Returned == ctx = "server" /\ pc \in {"returned", "done"}

\* The loop is about to process `transactions[idx + 1]` and does so.
LoopStep == ctx = "server" /\ pc = "loop" /\ idx < Len(transactions) /\ idx' = idx + 1

Current == transactions[idx + 1]

TotalOf(costs0) ==
    costs0.prompt + costs0.completion + costs0.cacheWrite + costs0.cacheRead
    + costs0.reasoning

\* The tokens of a priced record at the rates of the period its own
\* timestamp falls in.
OwnPeriodCost(transaction) ==
    LET pricing == RefPricing(transaction.model, TransactionDate(transaction))
        usage   == CurrentTokenUsage(transaction)
    IN  Field(usage, "promptTokens") * pricing.prompt
        + Field(usage, "completionTokens") * pricing.completion
        + (IF "cache" \in DOMAIN pricing
           THEN Field(usage, "cacheWriteTokens") * pricing.cache.write
                + Field(usage, "cacheReadTokens") * pricing.cache.read
           ELSE 0)
        + (IF "reasoning" \in DOMAIN pricing
           THEN Field(usage, "reasoningTokens") * pricing.reasoning.tokens
           ELSE 0)

\* Sum of OwnPeriodCost over the records of `models` among the first n.
RECURSIVE OwnCostSum(_, _, _)
OwnCostSum(docs, n, models) ==
    IF n = 0
    THEN 0
    ELSE OwnCostSum(docs, n - 1, models)
         + (IF docs[n].model \in models THEN OwnPeriodCost(docs[n]) ELSE 0)

AllPricedOrModelless(docs, n) ==
    \A i \in 1..n : Priced(docs[i].model) \/ docs[i].model = NoModel

\* C2: every record is costed with the period resolved for its own
\* timestamp, independently of the others: the cost of each priced model, and
\* the total, is the sum over the records of tokens at their own period's rate.
C2_EachRecordAtItsOwnPeriod ==
    Running =>
        /\ \A k \in 1..Len(modelBreakdown) :
               Priced(modelBreakdown[k].modelId) =>
                   modelBreakdown[k].cost =
                       OwnCostSum(transactions, idx, {modelBreakdown[k].modelId})
        /\ AllPricedOrModelless(transactions, idx) =>
               /\ TotalOf(costBreakdown) =
                      OwnCostSum(transactions, idx, DOMAIN PRICING_CONFIG)
               /\ IsSummary(summary) =>
                      summary.totalCost =
                          Round5(OwnCostSum(transactions, idx, DOMAIN PRICING_CONFIG))

\* gpt-3.5-turbo, 1000 completion tokens on 2023-11-10 and 1000 on
\* 2024-06-01: 0.002 + 0.0015 = 0.0035 USD.
C2_Witness ==
    /\ Returned
    /\ IsSummary(summary)
    /\ Len(transactions) = 2
    /\ \A i \in 1..2 :
           /\ transactions[i].model = "gpt-3.5-turbo"
           /\ transactions[i].tokenType = "completion"
           /\ transactions[i].rawAmount = 0 - 1000
    /\ TransactionDate(transactions[1]) = Nov2023
    /\ TransactionDate(transactions[2]) = Jun2024
    /\ summary.totalCost = 3500000

EntryCost(breakdown, modelId) ==
    IF EntryIndex(breakdown, modelId) = 0
    THEN 0
    ELSE breakdown[EntryIndex(breakdown, modelId)].cost

EntryTokens(breakdown, modelId) ==
    IF EntryIndex(breakdown, modelId) = 0
    THEN ZeroTokens
    ELSE breakdown[EntryIndex(breakdown, modelId)].tokenUsage

EntryCount(breakdown, modelId) ==
    IF EntryIndex(breakdown, modelId) = 0
    THEN 0
    ELSE breakdown[EntryIndex(breakdown, modelId)].transactionCount

RECURSIVE SumEntryTokens(_, _)
SumEntryTokens(breakdown, category) ==
    IF breakdown = <<>>
    THEN 0
    ELSE SumEntryTokens(SubSeq(breakdown, 1, Len(breakdown) - 1), category)
         + breakdown[Len(breakdown)].tokenUsage[category]

\* C4: a record whose model is not in the pricing table contributes zero to
\* the total cost, to every costBreakdown field and to its per-model cost,
\* whatever its other fields (its stored tokenValue included) hold.
C4_UnknownModelCostsNothing ==
    [][(LoopStep /\ Current.model # NoModel /\ ~Priced(Current.model)) =>
          /\ costBreakdown' = costBreakdown
          /\ EntryCost(modelBreakdown', Current.model)
                 = EntryCost(modelBreakdown, Current.model)]_vars

\* C5: the token counts of a record whose model is not in the pricing table
\* are added to the conversation-wide tokenUsage and to the tokenUsage of its
\* model's entry, so that every conversation total is the sum of the
\* per-model totals.
C5_UnknownModelTokensInBothTotals ==
    [][(LoopStep /\ Current.model # NoModel /\ ~Priced(Current.model)) =>
          /\ tokenUsage' = AddTokens(tokenUsage, CurrentTokenUsage(Current))
          /\ EntryTokens(modelBreakdown', Current.model)
                 = AddTokens(EntryTokens(modelBreakdown, Current.model),
                             CurrentTokenUsage(Current))
          /\ \A c \in TokenCategories :
                 tokenUsage'[c] = SumEntryTokens(modelBreakdown', c)]_vars

\* C6: a record without a model and with a token count of n > 0 raises the
\* promptTokens total by n and leaves completionTokens unchanged.
C6_ModellessTokensArePromptTokens ==
    [][(LoopStep /\ Current.model = NoModel /\ Abs(Field(Current, "rawAmount")) > 0) =>
          /\ tokenUsage'.promptTokens
                 = tokenUsage.promptTokens + Abs(Field(Current, "rawAmount"))
          /\ tokenUsage'.completionTokens = tokenUsage.completionTokens]_vars

NoTokenPayload(transaction) ==
    \A c \in TokenCategories : Field(CurrentTokenUsage(transaction), c) = 0

\* C8: a record with no recognizable token payload is not an error and
\* changes nothing: no cost, no tokens, no record count, no new entry
\* (stated for the records that carry a createdAt).
C8_EmptyRecordChangesNothing ==
    [][(LoopStep /\ NoTokenPayload(Current) /\ TransactionDate(Current).valid) =>
          /\ pc' = "loop"
          /\ costBreakdown' = costBreakdown
          /\ tokenUsage' = tokenUsage
          /\ modelBreakdown' = modelBreakdown]_vars

\* C9: calculateConversationCost returns null, without raising, when the
\* fetched list is empty or absent, and getConversationCostDisplay then
\* returns null too.
C9_NoTransactionsGivesNull ==
    (Returned /\ (query = "absent" \/ (query = "docs" /\ Len(transactions) = 0))) =>
        /\ summary = null
        /\ pc = "done" => display = null

\* The query gave an empty list and both calls have returned null.
C9_Witness ==
    /\ ctx = "server"
    /\ pc = "done"
    /\ query = "docs"
    /\ transactions = <<>>
    /\ summary = null
    /\ display = null

\* C10: after any sequence of records, debit-signed ones included, every
\* cost and every token counter of the running totals and of the returned
\* summary is non-negative.
C10_NothingNegative ==
    ctx = "server" =>
        /\ \A c \in Categories : costBreakdown[c] >= 0
        /\ \A c \in TokenCategories : tokenUsage[c] >= 0
        /\ \A k \in 1..Len(modelBreakdown) :
               /\ modelBreakdown[k].cost >= 0
               /\ \A c \in TokenCategories : modelBreakdown[k].tokenUsage[c] >= 0
        /\ IsSummary(summary) =>
               /\ summary.totalCost >= 0
               /\ \A c \in Categories : summary.costBreakdown[c] >= 0
               /\ \A c \in TokenCategories : summary.tokenUsage[c] >= 0
               /\ \A k \in 1..Len(summary.modelBreakdown) :
                      /\ summary.modelBreakdown[k].cost >= 0
                      /\ \A c \in TokenCategories :
                             summary.modelBreakdown[k].tokenUsage[c] >= 0

\* A summary over records with negative rawAmount and tokenValue, with a
\* positive cost and positive token totals.
C10_Witness ==
    /\ Returned
    /\ IsSummary(summary)
    /\ \A i \in 1..Len(transactions) :
           /\ transactions[i].tokenType = "completion"
           /\ transactions[i].rawAmount < 0
           /\ transactions[i].tokenValue < 0
    /\ summary.totalCost > 0
    /\ summary.tokenUsage.completionTokens > 0
    /\ summary.modelBreakdown[1].cost > 0

Distance(x, y) == IF x >= y THEN x - y ELSE y - x

\* x is y rounded to the nearest multiple of 0.00001 USD.
NearestCent5(x, y) == x % 10000 = 0 /\ Distance(x, y) <= 5000

\* The entries of `sorted` are the entries of `entries`, in some order, with
\* the given fields untouched.
SameEntries(sorted, entries) ==
    /\ Len(sorted) = Len(entries)
    /\ \A k \in 1..Len(entries) :
           \E j \in 1..Len(sorted) :
               /\ sorted[j].modelId = entries[k].modelId
               /\ sorted[j].cost = entries[k].cost
               /\ sorted[j].tokenUsage = entries[k].tokenUsage
               /\ sorted[j].transactionCount = entries[k].transactionCount

\* C11: the returned totalCost and the five returned costBreakdown fields are
\* the accumulated sums rounded to the nearest multiple of 0.00001 USD; the
\* per-model costs and the token counters are returned as accumulated.
C11_RoundedToFiveDecimals ==
    (Returned /\ IsSummary(summary)) =>
        /\ NearestCent5(summary.totalCost, TotalOf(costBreakdown))
        /\ \A c \in Categories :
               NearestCent5(summary.costBreakdown[c], costBreakdown[c])
        /\ SameEntries(summary.modelBreakdown, modelBreakdown)
        /\ summary.tokenUsage = tokenUsage

\* 7 completion tokens of gpt-3.5-turbo at 1.5 USD per 1M are 0.0000105 USD:
\* returned as 0.00001 in the total and unrounded in the model's entry; and
\* a sum whose sixth decimal is 5 or more is rounded up.
C11_Witness ==
    /\ Returned
    /\ IsSummary(summary)
    /\ TotalOf(costBreakdown) % 10000 >= 5000
    /\ summary.totalCost > TotalOf(costBreakdown)
    /\ \E k \in 1..Len(summary.modelBreakdown) :
           summary.modelBreakdown[k].cost % 10000 # 0

\* The position in the input of the first record that names modelId.
FirstSeen(modelId) ==
    CHOOSE i \in 1..Len(transactions) :
        /\ transactions[i].model = modelId
        /\ \A j \in 1..(i - 1) : transactions[j].model # modelId

\* C12: the returned modelBreakdown is ordered by cost descending, and
\* entries of equal cost keep the order in which their models were first
\* encountered in the input.
C12_SortedByCostStable ==
    (Returned /\ IsSummary(summary)) =>
        \A i, j \in 1..Len(summary.modelBreakdown) :
            i < j =>
                /\ summary.modelBreakdown[i].cost >= summary.modelBreakdown[j].cost
                /\ summary.modelBreakdown[i].cost = summary.modelBreakdown[j].cost =>
                       FirstSeen(summary.modelBreakdown[i].modelId)
                           < FirstSeen(summary.modelBreakdown[j].modelId)

\* Two models of equal positive cost, returned in input order.
C12_Witness ==
    /\ Returned
    /\ IsSummary(summary)
    /\ Len(summary.modelBreakdown) = 2
    /\ summary.modelBreakdown[1].cost = summary.modelBreakdown[2].cost
    /\ summary.modelBreakdown[1].cost > 0
    /\ transactions[1].model = summary.modelBreakdown[1].modelId

\* The cheaper model came first in the input and is returned second.
C12_WitnessReordered ==
    /\ Returned
    /\ IsSummary(summary)
    /\ Len(summary.modelBreakdown) = 2
    /\ summary.modelBreakdown[1].cost > summary.modelBreakdown[2].cost
    /\ transactions[2].model = summary.modelBreakdown[1].modelId

Timestamped(docs) == {i \in 1..Len(docs) : TransactionDate(docs[i]).valid}

\* updated is the greatest createdAt among docs.
IsMaxTimestamp(updated, docs) ==
    /\ \E i \in Timestamped(docs) : TransactionDate(docs[i]) = updated
    /\ \A i \in Timestamped(docs) : DateLE(TransactionDate(docs[i]), updated)

\* The part of C13 about records that carry a timestamp.
LastUpdatedIsMaxTimestamp ==
    (Returned /\ IsSummary(summary) /\ Timestamped(transactions) # {}) =>
        IsMaxTimestamp(summary.lastUpdated, transactions)

\* C13: the summary's lastUpdated is the greatest timestamp of the input
\* records, those without a model included, and is the current time when no
\* record carries a timestamp.
C13_LastUpdatedIsMaxOrNow ==
    (Returned /\ IsSummary(summary)) =>
        IF Timestamped(transactions) # {}
        THEN IsMaxTimestamp(summary.lastUpdated, transactions)
        ELSE summary.lastUpdated = Now

Displayed == ctx = "server" /\ pc = "done" /\ display # null

\* C16: with at least one modelBreakdown entry the displayed primaryModel
\* is the model of an entry whose cost is not below any other entry's; with
\* no entry it is "Unknown".
C16_PrimaryModelIsCostliest ==
    Displayed =>
        IF Len(modelBreakdown) > 0
        THEN \E k \in 1..Len(modelBreakdown) :
                 /\ display.primaryModel = modelBreakdown[k].modelId
                 /\ \A j \in 1..Len(modelBreakdown) :
                        modelBreakdown[k].cost >= modelBreakdown[j].cost
        ELSE display.primaryModel = "Unknown"

\* The costlier of two models came second in the input and is displayed.
C16_Witness ==
    /\ Displayed
    /\ Len(modelBreakdown) = 2
    /\ modelBreakdown[2].cost > modelBreakdown[1].cost
    /\ display.primaryModel = transactions[2].model

\* A summary over records without a model has no entry.
C16_WitnessUnknown ==
    /\ Displayed
    /\ Len(transactions) > 0
    /\ Len(modelBreakdown) = 0
    /\ display.primaryModel = "Unknown"

\* C18: a persistence failure while fetching the records is propagated as a
\* failure by calculateConversationCost and by getConversationCostDisplay.
C18_FailurePropagatesFromSingleCalls ==
    (Returned /\ query = "rejected") =>
        /\ summary = MongoError
        /\ pc = "done" => display = MongoError

\* Sum of cost over the first n entries.
RECURSIVE SumEntryCost(_, _)
SumEntryCost(entries, n) ==
    IF n = 0 THEN 0 ELSE SumEntryCost(entries, n - 1) + entries[n].cost

\* C24: after any sequence of records (priced, unknown with the fallback,
\* without a model) the costs of the modelBreakdown entries add up to the
\* unrounded sum of the five costBreakdown accumulators, and so differ from
\* the returned totalCost by at most 0.000005 USD.
C24_ModelCostsAddUpToTotal ==
    Running =>
        /\ SumEntryCost(modelBreakdown, Len(modelBreakdown)) = TotalOf(costBreakdown)
        /\ IsSummary(summary) =>
               /\ SumEntryCost(summary.modelBreakdown, Len(summary.modelBreakdown))
                      = TotalOf(costBreakdown)
               /\ Distance(SumEntryCost(summary.modelBreakdown,
                                        Len(summary.modelBreakdown)),
                           summary.totalCost) <= 5000

\* An unknown model costed by the fallback and a priced model, with a sum
\* that the returned totalCost rounds.
C24_Witness ==
    /\ Returned
    /\ IsSummary(summary)
    /\ Len(summary.modelBreakdown) = 2
    /\ \E k \in 1..2 :
           /\ ~Priced(summary.modelBreakdown[k].modelId)
           /\ summary.modelBreakdown[k].cost > 0
    /\ \E k \in 1..2 :
           /\ Priced(summary.modelBreakdown[k].modelId)
           /\ summary.modelBreakdown[k].cost > 0
    /\ SumEntryCost(summary.modelBreakdown, 2) # summary.totalCost

\* A record without a model beside a record costed by the fallback.
C24_WitnessModelless ==
    /\ Returned
    /\ IsSummary(summary)
    /\ \E i \in 1..Len(transactions) : transactions[i].model = NoModel
    /\ Len(summary.modelBreakdown) = 1
    /\ ~Priced(summary.modelBreakdown[1].modelId)
    /\ summary.modelBreakdown[1].cost > 0

-----------------------------------------------------------------------------
(* ConversationCost.tsx: the client widget *)

(* A model name is the sequence of its characters, so that includes() and   *)
(* toLowerCase() are computed.  MODEL_PRICING holds its keys in the order   *)
(* Object.keys gives them, with the price (USD per 1,000,000 tokens) in     *)
(* ten-thousandths of a USD: 0.1875 is 1875.                                *)
MODEL_PRICING ==
    <<
      [key |-> <<"g", "p", "t", "-", "4", "o">>,
       price |-> 100000],
      [key |-> <<"g", "p", "t", "-", "4", "o", "-", "m", "i", "n", "i">>,
       price |-> 3750],
      [key |-> <<"g", "p", "t", "-", "4", "-", "t", "u", "r", "b", "o">>,
       price |-> 200000],
      [key |-> <<"g", "p", "t", "-", "4">>,
       price |-> 450000],
      [key |-> <<"g", "p", "t", "-", "3", ".", "5", "-", "t", "u", "r", "b", "o">>,
       price |-> 10000],
      [key |-> <<"o", "1">>,
       price |-> 375000],
      [key |-> <<"o", "1", "-", "m", "i", "n", "i">>,
       price |-> 75000],
      [key |-> <<"o", "1", "-", "p", "r", "e", "v", "i", "e", "w">>,
       price |-> 375000],
      [key |-> <<"c", "l", "a", "u", "d", "e", "-", "3", "-", "5", "-", "s", "o", "n", "n", "e", "t">>,
       price |-> 90000],
      [key |-> <<"c", "l", "a", "u", "d", "e", "-", "3", "-", "5", "-", "h", "a", "i", "k", "u">>,
       price |-> 24000],
      [key |-> <<"c", "l", "a", "u", "d", "e", "-", "3", "-", "o", "p", "u", "s">>,
       price |-> 450000],
      [key |-> <<"c", "l", "a", "u", "d", "e", "-", "3", "-", "s", "o", "n", "n", "e", "t">>,
       price |-> 90000],
      [key |-> <<"c", "l", "a", "u", "d", "e", "-", "3", "-", "h", "a", "i", "k", "u">>,
       price |-> 7500],
      [key |-> <<"c", "l", "a", "u", "d", "e", "-", "2", ".", "1">>,
       price |-> 160000],
      [key |-> <<"c", "l", "a", "u", "d", "e", "-", "2">>,
       price |-> 160000],
      [key |-> <<"g", "e", "m", "i", "n", "i", "-", "1", ".", "5", "-", "p", "r", "o">>,
       price |-> 62500],
      [key |-> <<"g", "e", "m", "i", "n", "i", "-", "1", ".", "5", "-", "f", "l", "a", "s", "h">>,
       price |-> 3750],
      [key |-> <<"g", "e", "m", "i", "n", "i", "-", "1", ".", "5", "-", "f", "l", "a", "s", "h", "-", "8", "b">>,
       price |-> 1875],
      [key |-> <<"g", "e", "m", "i", "n", "i", "-", "p", "r", "o">>,
       price |-> 10000],
      [key |-> <<"g", "e", "m", "i", "n", "i", "-", "2", ".", "0">>,
       price |-> 3750],
      [key |-> <<"d", "e", "f", "a", "u", "l", "t">>,
       price |-> 10000]
    >>

default == <<"d", "e", "f", "a", "u", "l", "t">>

\* String.prototype.toLowerCase
LowerChar(c) ==
    CASE c = "A" -> "a"
      [] c = "B" -> "b"
      [] c = "C" -> "c"
      [] c = "D" -> "d"
      [] c = "E" -> "e"
      [] c = "F" -> "f"
      [] c = "G" -> "g"
      [] c = "H" -> "h"
      [] c = "I" -> "i"
      [] c = "J" -> "j"
      [] c = "K" -> "k"
      [] c = "L" -> "l"
      [] c = "M" -> "m"
      [] c = "N" -> "n"
      [] c = "O" -> "o"
      [] c = "P" -> "p"
      [] c = "Q" -> "q"
      [] c = "R" -> "r"
      [] c = "S" -> "s"
      [] c = "T" -> "t"
      [] c = "U" -> "u"
      [] c = "V" -> "v"
      [] c = "W" -> "w"
      [] c = "X" -> "x"
      [] c = "Y" -> "y"
      [] c = "Z" -> "z"
      [] OTHER -> c

toLowerCase(str) == [k \in 1..Len(str) |-> LowerChar(str[k])]

\* String.prototype.includes
includes(str, search) ==
    \E at \in 0..(Len(str) - Len(search)) :
        \A k \in 1..Len(search) : str[at + k] = search[k]

\* The for-of loop of getBaseModel over Object.keys(MODEL_PRICING) from
\* position k on: the first key the lower-cased name includes, else null.
RECURSIVE FirstIncludedKey(_, _)
FirstIncludedKey(modelLower, k) ==
    IF k > Len(MODEL_PRICING)
    THEN null
    ELSE IF includes(modelLower, toLowerCase(MODEL_PRICING[k].key))
         THEN [key |-> MODEL_PRICING[k].key]
         ELSE FirstIncludedKey(modelLower, k + 1)

\* getBaseModel(model); model is null (NoModel) or a name.
getBaseModel(model) ==
    IF model = NoModel
    THEN default
    ELSE LET modelLower == toLowerCase(model)
             found      == FirstIncludedKey(modelLower, 1)
         IN  IF found # null
             THEN found.key
             ELSE IF includes(modelLower, <<"g", "p", "t">>)
                  THEN <<"g", "p", "t", "-", "3", ".", "5", "-", "t", "u", "r", "b", "o">>
                  ELSE IF includes(modelLower, <<"c", "l", "a", "u", "d", "e">>)
                       THEN <<"c", "l", "a", "u", "d", "e", "-", "3", "-", "h", "a", "i", "k", "u">>
                       ELSE IF includes(modelLower, <<"g", "e", "m", "i", "n", "i">>)
                            THEN <<"g", "e", "m", "i", "n", "i", "-", "1", ".", "5", "-", "f", "l", "a", "s", "h">>
                            ELSE default

\* MODEL_PRICING[baseModel] || MODEL_PRICING.default
PricePerMillion(baseModel) ==
    LET hits == {k \in 1..Len(MODEL_PRICING) : MODEL_PRICING[k].key = baseModel}
        at   == CHOOSE k \in hits : TRUE
    IN  IF hits # {} /\ MODEL_PRICING[at].price # 0
        THEN MODEL_PRICING[at].price
        ELSE MODEL_PRICING[Len(MODEL_PRICING)].price

\* (tokenCount / 1_000_000) * pricePerMillion, in nano-USD (exact when
\* tokenCount * pricePerMillion is a multiple of 10 ten-thousandths).
MessageCost(tokenCount, pricePerMillion) ==
    tokenCount * (pricePerMillion \div 10)
    + (tokenCount * (pricePerMillion % 10)) \div 10

\* !message.tokenCount && !message.tokens && !message.usage
WithoutTokenCount(message) ==
    /\ Field(message, "tokenCount") = 0
    /\ "tokens" \notin DOMAIN message
    /\ "usage" \notin DOMAIN message

\* The token count the callback extracts from a message.
TokenCountOf(message) ==
    IF Field(message, "tokenCount") # 0
    THEN message.tokenCount
    ELSE IF "usage" \in DOMAIN message
         THEN Field(message.usage, "prompt_tokens")
              + Field(message.usage, "completion_tokens")
         ELSE IF "tokens" \in DOMAIN message
              THEN Field(message.tokens, "prompt") + Field(message.tokens, "completion")
              ELSE 0

\* message.model || 'default'
ModelOf(message) ==
    IF "model" \in DOMAIN message /\ message.model # NoModel
    THEN message.model
    ELSE default

\* modelCosts.set(model, (modelCosts.get(model) || 0) + messageCost)
SetModelCost(modelCosts, model, messageCost) ==
    IF \E k \in 1..Len(modelCosts) : modelCosts[k].model = model
    THEN [k \in 1..Len(modelCosts) |->
             IF modelCosts[k].model = model
             THEN [model |-> model, cost |-> modelCosts[k].cost + messageCost]
             ELSE modelCosts[k]]
    ELSE Append(modelCosts, [model |-> model, cost |-> messageCost])

\* The locals after the forEach callback has run for one message.
MessageBody(locals, message) ==
    LET tokenCount      == TokenCountOf(message)
        model           == ModelOf(message)
        pricePerMillion == PricePerMillion(getBaseModel(model))
        messageCost     == MessageCost(tokenCount, pricePerMillion)
    IN  IF WithoutTokenCount(message) \/ tokenCount = 0
        THEN locals
        ELSE [i           |-> locals.i,
              totalCost   |-> locals.totalCost + messageCost,
              totalTokens |-> locals.totalTokens + tokenCount,
              modelCosts  |-> SetModelCost(locals.modelCosts, model, messageCost)]

\* modelCosts.forEach((cost, model) => { if (cost > maxCost) ... })
RECURSIVE PrimaryModel(_, _, _, _)
PrimaryModel(modelCosts, k, maxCost, primaryModel) ==
    IF k > Len(modelCosts)
    THEN primaryModel
    ELSE IF modelCosts[k].cost > maxCost
         THEN PrimaryModel(modelCosts, k + 1, modelCosts[k].cost, modelCosts[k].model)
         ELSE PrimaryModel(modelCosts, k + 1, maxCost, primaryModel)

\* The widget's own formatCost.
formatCostClient(cost) ==
    IF cost < 1000000
    THEN [literal |-> "<$0.001"]
    ELSE IF cost < 10000000
         THEN [literal |-> "$"] @@ toFixed(cost, 4)
         ELSE IF cost < 1000000000
              THEN [literal |-> "$"] @@ toFixed(cost, 3)
              ELSE [literal |-> "$"] @@ toFixed(cost, 2)

\* The object the useMemo callback returns.
CostDataOf(locals) ==
    [totalCost    |-> formatCostClient(locals.totalCost),
     totalCostRaw |-> locals.totalCost,
     primaryModel |-> PrimaryModel(locals.modelCosts, 1, 0, <<"U", "n", "k", "n", "o", "w", "n">>),
     totalTokens  |-> locals.totalTokens,
     lastUpdated  |-> Now]

\* Longest list of messages in the store.
MaxMessages == 2

ClientModels ==
    {NoModel,
     <<"g", "p", "t", "-", "4", "o">>,
     <<"g", "p", "t", "-", "4", "o", "-", "m", "i", "n", "i">>,
     <<"G", "P", "T", "-", "4">>,
     <<"o", "1", "-", "m", "i", "n", "i">>,
     <<"g", "e", "m", "i", "n", "i", "-", "1", ".", "5", "-", "f", "l", "a", "s", "h", "-", "8", "b">>,
     <<"g", "p", "t", "-", "5">>,
     <<"c", "l", "a", "u", "d", "e", "-", "i", "n", "s", "t", "a", "n", "t">>,
     <<"g", "e", "m", "i", "n", "i", "-", "u", "l", "t", "r", "a">>,
     <<"m", "i", "s", "t", "r", "a", "l", "-", "l", "a", "r", "g", "e">>}

TokenFields ==
    {<<>>,
     [tokenCount |-> 500],
     [tokenCount |-> 0, tokens |-> [prompt |-> 200, completion |-> 400]],
     [usage |-> [prompt_tokens |-> 300, completion_tokens |-> 700]],
     [tokens |-> [prompt |-> 200, completion |-> 400]],
     [tokenCount |-> 500, usage |-> [prompt_tokens |-> 300, completion_tokens |-> 700]],
     [tokenCount |-> 500, tokens |-> [prompt |-> 200, completion |-> 400]],
     [usage |-> [prompt_tokens |-> 300, completion_tokens |-> 700],
      tokens |-> [prompt |-> 200, completion |-> 400]]}

Messages ==
    {(IF m = NoModel THEN <<>> ELSE [model |-> m]) @@ f :
        m \in ClientModels, f \in TokenFields}

InitClient ==
    /\ ctx = "client"
    /\ pc = "render"
    /\ ServerIdle
    /\ PricingIdle
    /\ ClientIdle
    /\ BatchIdle

\* A render with the store's messages: the callback starts, and returns
\* null at once when there are none.
ClientRender ==
    /\ ctx = "client"
    /\ pc = "render"
    /\ \E n \in 0..MaxMessages :
        \E list \in [1..n -> Messages] :
            /\ messages' = list
            /\ IF n = 0
               THEN costData' = null /\ pc' = "rendered"
               ELSE pc' = "forEach" /\ UNCHANGED costData
    /\ UNCHANGED <<ctx, batchVars, pricingVars, serverVars, memo>>

\* One call of the messages.forEach callback.
ClientMessage ==
    /\ ctx = "client"
    /\ pc = "forEach"
    /\ memo.i < Len(messages)
    /\ memo' = [MessageBody(memo, messages[memo.i + 1]) EXCEPT !.i = memo.i + 1]
    /\ UNCHANGED <<ctx, batchVars, pc, pricingVars, serverVars, messages, costData>>

\* The code after forEach: primary model, formatting, the returned object.
ClientReturn ==
    /\ ctx = "client"
    /\ pc = "forEach"
    /\ memo.i = Len(messages)
    /\ costData' = CostDataOf(memo)
    /\ pc' = "rendered"
    /\ UNCHANGED <<ctx, batchVars, pricingVars, serverVars, messages, memo>>

NextClient == ClientRender \/ ClientMessage \/ ClientReturn

SpecClient == InitClient /\ [][NextClient]_vars

\* Either execution context: the server call or the client render.
SpecBoth == (InitServer \/ InitClient) /\ [][NextServer \/ NextClient]_vars

-----------------------------------------------------------------------------
(* Properties shared by the server and the client widget *)

\* The forEach callback is about to run for `messages[memo.i + 1]` and does.
ForEachStep ==
    ctx = "client" /\ pc = "forEach" /\ memo.i < Len(messages) /\ memo'.i = memo.i + 1

CurrentMessage == messages[memo.i + 1]

\* C7: a record without a model adds nothing to the total cost, in the server
\* aggregator and in the client widget's computation alike.
C7_ModellessRecordCostsNothing ==
    [][/\ (LoopStep /\ Current.model = NoModel) =>
              /\ costBreakdown' = costBreakdown
              /\ modelBreakdown' = modelBreakdown
       /\ (ForEachStep /\ "model" \notin DOMAIN CurrentMessage) =>
              memo'.totalCost = memo.totalCost]_vars

\* The count taken from the usage object before the tokens object, and from
\* the tokens object before the flat tokenCount.
UsageThenTokensThenFlat(message) ==
    IF "usage" \in DOMAIN message
    THEN Field(message.usage, "prompt_tokens") + Field(message.usage, "completion_tokens")
    ELSE IF "tokens" \in DOMAIN message
         THEN Field(message.tokens, "prompt") + Field(message.tokens, "completion")
         ELSE Field(message, "tokenCount")

\* C19: when a message carries more than one token shape, its count is
\* taken from `usage` in preference to `tokens`, and from `tokens` in
\* preference to the flat `tokenCount`.
C19_UsageBeforeTokensBeforeFlat ==
    [][ForEachStep =>
          memo'.totalTokens = memo.totalTokens + UsageThenTokensThenFlat(CurrentMessage)]_vars

IsPricingKey(model) == \E k \in 1..Len(MODEL_PRICING) : MODEL_PRICING[k].key = model

\* The price listed under the key `model` itself.
OwnPrice(model) ==
    MODEL_PRICING[CHOOSE k \in 1..Len(MODEL_PRICING) : MODEL_PRICING[k].key = model].price

\* C23: for a message with tokens whose model name is itself a key of
\* MODEL_PRICING, getBaseModel returns that key and the message is priced at
\* that key's own rate.
C23_KeyNamesPricedAtOwnRate ==
    [][(/\ ForEachStep
        /\ "model" \in DOMAIN CurrentMessage
        /\ IsPricingKey(CurrentMessage.model)
        /\ TokenCountOf(CurrentMessage) > 0) =>
           /\ getBaseModel(CurrentMessage.model) = CurrentMessage.model
           /\ memo'.totalCost
                  = memo.totalCost
                    + MessageCost(TokenCountOf(CurrentMessage),
                                  OwnPrice(CurrentMessage.model))]_vars

-----------------------------------------------------------------------------
(* The display formatters called on their own *)

\* Costs in nano-USD: the three thresholds and their neighbours, and a grid
\* over each of the four ranges.  No cost is a decimal tie of its toFixed,
\* where the digit produced depends on the binary expansion of the double.
FormatCosts ==
    {0, 1, 10000, 999400000, 999600000, 9994000, 9996000}
    \cup {t + d : t \in {1000000, 10000000, 1000000000},
                  d \in {0 - 10000, 0 - 1, 0, 1, 10000}}
    \cup {k * 200000 + 30000 : k \in 0..49}
    \cup {k * 20000000 + 3300000 : k \in 0..49}
    \cup {1000000000 + k * 100000000 + 12340000 : k \in 0..9}

InitFormat ==
    /\ ctx = "format"
    /\ pc = "idle"
    /\ ServerIdle
    /\ PricingIdle
    /\ ClientIdle
    /\ BatchIdle

\* formatCost(cost) of getConversationCostDisplay
CallFormatCost ==
    /\ ctx = "format"
    /\ call = null
    /\ \E cost \in FormatCosts :
        /\ call' = [fn |-> "formatCost", cost |-> cost]
        /\ ret' = formatCost(cost)
    /\ UNCHANGED <<ctx, batchVars, pc, serverVars, clientVars>>

\* formatCost(cost) of the client widget
CallFormatCostClient ==
    /\ ctx = "format"
    /\ call = null
    /\ \E cost \in FormatCosts :
        /\ call' = [fn |-> "formatCostClient", cost |-> cost]
        /\ ret' = formatCostClient(cost)
    /\ UNCHANGED <<ctx, batchVars, pc, serverVars, clientVars>>

NextFormat == CallFormatCost \/ CallFormatCostClient

SpecFormat == InitFormat /\ [][NextFormat]_vars

-----------------------------------------------------------------------------
(* Properties of the display formatters *)

\* shown is "$" followed by cost with `digits` decimal places: the decimal
\* number of that many places nearest to cost.
ShowsWithDecimals(shown, cost, digits) ==
    /\ shown.literal = "$"
    /\ shown.digits = digits
    /\ shown.decimals \in 0..(Pow10(digits) - 1)
    /\ 2 * Distance((shown.dollars * Pow10(digits) + shown.decimals) * Pow10(9 - digits),
                    cost)
           <= Pow10(9 - digits)

\* The branch the thresholds 0.001, 0.01 and 1 USD assign to a cost.
ShownByThresholds(shown, cost) ==
    /\ cost < 1000000 => shown = [literal |-> "<$0.001"]
    /\ (1000000 <= cost /\ cost < 10000000) => ShowsWithDecimals(shown, cost, 4)
    /\ (10000000 <= cost /\ cost < 1000000000) => ShowsWithDecimals(shown, cost, 3)
    /\ 1000000000 <= cost => ShowsWithDecimals(shown, cost, 2)

\* C14: formatCost shows a cost c below 0.001 as "<$0.001", below 0.01 with
\* 4 decimal places, below 1 with 3 and otherwise with 2, and the client
\* widget's formatter takes the same branch for every c.
C14_FormatByThresholds ==
    (Called("formatCost") \/ Called("formatCostClient")) =>
        ShownByThresholds(ret, call.cost)

\* 0.001 USD itself is shown with four decimals, as "$0.0010".
C14_Witness ==
    /\ Called("formatCost")
    /\ call.cost = 1000000
    /\ ret = [literal |-> "$", dollars |-> 0, decimals |-> 10, digits |-> 4]

\* C15: a cost from 0.001 up to 0.01 is shown as "$0." and four digits, a
\* cost from 0.01 up to 1 as "$0." and three digits.
C15_BelowOneDollarShowsZeroDollars ==
    (Called("formatCost") /\ 1000000 <= call.cost /\ call.cost < 1000000000) =>
        /\ ret.literal = "$"
        /\ ret.dollars = 0
        /\ ret.digits = IF call.cost < 10000000 THEN 4 ELSE 3

-----------------------------------------------------------------------------
(* ConversationCost.js: getMultipleConversationCosts *)

\* The rest of an iteration once the body of the loop has been evaluated.
AfterBody(before, updated, modelId, body) ==
    IF modelId = NoModel
    THEN [before EXCEPT !.lastUpdated = updated]
    ELSE IF body = RangeError
         THEN RangeError
         ELSE [costBreakdown  |-> body.costBreakdown,
               tokenUsage     |-> body.tokenUsage,
               modelBreakdown |-> body.modelBreakdown,
               lastUpdated    |-> updated]

\* One iteration of for (const transaction of transactions) on the totals
\* `before`; an error raised earlier has ended the loop.
Iteration(before, transaction, transactionDate) ==
    IF before = RangeError
    THEN RangeError
    ELSE AfterBody(before,
                   IF DateGT(transactionDate, before.lastUpdated)
                   THEN transactionDate ELSE before.lastUpdated,
                   transaction.model,
                   ProcessBody(before.costBreakdown, before.tokenUsage,
                               before.modelBreakdown, transaction))

\* The for-loop of calculateConversationCost over the first n documents:
\* the totals, or the RangeError that calculateCost raised on the way.
RECURSIVE RunLoop(_, _)
RunLoop(docs, n) ==
    IF n = 0
    THEN [costBreakdown |-> ZeroCosts, tokenUsage |-> ZeroTokens,
          modelBreakdown |-> <<>>, lastUpdated |-> Epoch]
    ELSE Iteration(RunLoop(docs, n - 1), docs[n], TransactionDate(docs[n]))

\* The code after the loop, or the rethrow of the catch block.
SummaryOf(totals) ==
    IF totals = RangeError
    THEN RangeError
    ELSE BuildSummary(totals.costBreakdown, totals.tokenUsage,
                      totals.modelBreakdown, totals.lastUpdated)

\* calculateConversationCost for a query that settled as `settled` with the
\* documents `docs`: a summary, null, or the error it rethrows.
calculateConversationCost(settled, docs) ==
    IF settled = "rejected"
    THEN MongoError
    ELSE IF NoTransactions(settled, docs)
         THEN null
         ELSE SummaryOf(RunLoop(docs, Len(docs)))

\* getConversationCostDisplay once calculateConversationCost has settled:
\* null without a summary, null from the catch block, the display otherwise.
DisplayOrNull(conversationId, costSummary) ==
    IF IsRejected(costSummary) \/ costSummary = null
    THEN null
    ELSE [conversationId |-> conversationId] @@ DisplayOf(costSummary)

\* getConversationCostDisplay(conversationId)
getConversationCostDisplay(conversationId, settled, docs) ==
    DisplayOrNull(conversationId, calculateConversationCost(settled, docs))

\* const batchSize = 10
batchSize == 10

\* Longest list of conversation ids.
MaxConversationIds == 12

\* Number of arrangements of the store.
Databases == 4

BatchModels == <<"gpt-3.5-turbo", "claude-3-5-sonnet", "o1">>

\* What the store holds for a conversation: a conversation with two priced
\* records, one without records, one whose query is rejected, and one with
\* a priced record that has no createdAt (calculateCost raises on it).
Stored(db, conversationId) ==
    LET kind  == (conversationId + db) % Databases
        model == BatchModels[(conversationId % 3) + 1]
    IN  CASE kind = 0 ->
                 [settled |-> "docs",
                  docs |-> <<Doc(model, Nov2023, RegularPrompt),
                             Doc(model, Jun2024, StructuredPrompt)>>]
          [] kind = 1 -> [settled |-> "docs", docs |-> <<>>]
          [] kind = 2 -> [settled |-> "rejected", docs |-> <<>>]
          [] OTHER ->
                 [settled |-> "docs",
                  docs |-> <<Doc(model, InvalidDate, RegularPrompt)>>]

GetDisplayOf(conversationId, stored) ==
    getConversationCostDisplay(conversationId, stored.settled, stored.docs)

\* A separate call of getConversationCostDisplay for the conversation.
SeparateCall(db, conversationId) ==
    GetDisplayOf(conversationId, Stored(db, conversationId))

Min(a, b) == IF a <= b THEN a ELSE b

\* A batch that is the whole rest of the list (no slice).
StartBatch_RestOfList(ids, from) ==
    [k \in 1..(Len(ids) - from) |->
        [conversationId |-> ids[from + k], state |-> "pending"]]

\* conversationIds.slice(i, i + batchSize).map(async ...): one pending
\* promise per member of the batch.
StartBatch(ids, from) ==
    [k \in 1..Min(batchSize, Len(ids) - from) |->
        [conversationId |-> ids[from + k], state |-> "pending"]]

Outstanding(promises) == {k \in 1..Len(promises) : promises[k].state = "pending"}

\* try { cost = await getConversationCostDisplay(...) } catch { cost: null }
Fulfilled(conversationId, cost) ==
    [conversationId |-> conversationId,
     state |-> "fulfilled",
     cost |-> IF IsRejected(cost) THEN null ELSE cost]

\* What getConversationCostDisplay returns for each conversation of each
\* arrangement of the store, computed once.
StoredDisplays ==
    [db \in 0..(Databases - 1) |->
        [conversationId \in 1..MaxConversationIds |-> SeparateCall(db, conversationId)]]

BatchMember(db, conversationId) ==
    Fulfilled(conversationId, StoredDisplays[db][conversationId])

\* An assignment that stores only the costs that are not null.
AssignResults_SkipNull(results0, batchResults) ==
    LET kept == {k \in 1..Len(batchResults) : batchResults[k].cost # null}
        ids  == {batchResults[k].conversationId : k \in kept}
    IN  [id \in DOMAIN results0 \cup ids |->
            IF id \in ids
            THEN batchResults[CHOOSE k \in kept : batchResults[k].conversationId = id].cost
            ELSE results0[id]]

\* batchResults.forEach(({ conversationId, cost }) => results[conversationId] = cost)
AssignResults(results0, batchResults) ==
    LET ids == {batchResults[k].conversationId : k \in 1..Len(batchResults)}
        last(id) == CHOOSE k \in 1..Len(batchResults) :
                        /\ batchResults[k].conversationId = id
                        /\ \A j \in (k + 1)..Len(batchResults) :
                               batchResults[j].conversationId # id
    IN  [id \in DOMAIN results0 \cup ids |->
            IF id \in ids THEN batchResults[last(id)].cost ELSE results0[id]]

InitBatch ==
    /\ ctx = "batch"
    /\ pc = "start"
    /\ ServerIdle
    /\ PricingIdle
    /\ ClientIdle
    /\ BatchIdle

\* The call up to its first await: results = {}, and either the first
\* batch in flight or, for no ids, the return of the empty results.
GetMultipleConversationCosts ==
    /\ ctx = "batch"
    /\ pc = "start"
    /\ \E n \in 0..MaxConversationIds, db \in 0..(Databases - 1) :
        /\ conversationIds' = [k \in 1..n |-> k]
        /\ database' = db
        /\ batchStart' = 0
        /\ results' = <<>>
        /\ IF n = 0
           THEN pc' = "returned" /\ batchPromises' = <<>>
           ELSE pc' = "awaitAll" /\ batchPromises' = StartBatch(conversationIds', 0)
    /\ UNCHANGED <<ctx, pricingVars, serverVars, clientVars, hung>>

\* One conversation's query settles and its async callback runs to its end.
FetchSettles ==
    /\ ctx = "batch"
    /\ pc = "awaitAll"
    /\ \E k \in Outstanding(batchPromises) :
        /\ batchPromises[k].conversationId \notin hung
        /\ batchPromises' =
               [batchPromises EXCEPT
                   ![k] = BatchMember(database, batchPromises[k].conversationId)]
    /\ UNCHANGED <<ctx, pc, pricingVars, serverVars, clientVars, conversationIds,
                   database, batchStart, results, hung>>

\* A loop whose variable does not advance.
NextStart_Same(from) == from

\* i += batchSize
NextStart(from) == from + batchSize

\* await Promise.all(batchPromises)
AllSettled(promises) == Outstanding(promises) = {}

\* Promise.all has resolved: the results of the batch are stored, and the
\* loop starts the next batch or the call returns results.
BatchSettled ==
    /\ ctx = "batch"
    /\ pc = "awaitAll"
    /\ AllSettled(batchPromises)
    /\ results' = AssignResults(results, batchPromises)
    /\ batchStart' = NextStart(batchStart)
    /\ IF batchStart' < Len(conversationIds)
       THEN /\ batchPromises' = StartBatch(conversationIds, batchStart')
            /\ UNCHANGED pc
       ELSE /\ pc' = "returned"
            /\ UNCHANGED batchPromises
    /\ UNCHANGED <<ctx, pricingVars, serverVars, clientVars, conversationIds, database,
                   hung>>

NextBatch == GetMultipleConversationCosts \/ FetchSettles \/ BatchSettled

SpecBatch == InitBatch /\ [][NextBatch]_vars

\* The queries that never settle: none, or the query of one conversation.
HungChoices == {{}} \cup {{h} : h \in 1..MaxConversationIds}

InitBatchHang ==
    /\ ctx = "batch"
    /\ pc = "start"
    /\ ServerIdle
    /\ PricingIdle
    /\ ClientIdle
    /\ conversationIds = <<>>
    /\ database = 0
    /\ batchStart = 0
    /\ batchPromises = <<>>
    /\ results = pending
    /\ hung \in HungChoices

\* The call with an event loop that runs every continuation that is ready,
\* and a store that settles every query outside `hung`.
SpecBatchLive ==
    /\ InitBatchHang
    /\ [][NextBatch]_vars
    /\ WF_vars(GetMultipleConversationCosts)
    /\ WF_vars(FetchSettles)
    /\ WF_vars(BatchSettled)

-----------------------------------------------------------------------------
(* Properties of getMultipleConversationCosts *)

BatchReturned == ctx = "batch" /\ pc = "returned"

InputIds == {conversationIds[k] : k \in 1..Len(conversationIds)}

\* Fetching or summarizing the conversation fails.
Fails(db, conversationId) ==
    IsRejected(calculateConversationCost(Stored(db, conversationId).settled,
                                         Stored(db, conversationId).docs))

\* C17: getMultipleConversationCosts returns a mapping with one key for
\* every conversation id of the input; a conversation whose fetch or summary
\* fails maps to null, and every key maps to what a separate call of
\* getConversationCostDisplay for that id returns.
C17_BatchMapsEveryId ==
    BatchReturned =>
        /\ DOMAIN results = InputIds
        /\ \A id \in InputIds :
               /\ results[id] = SeparateCall(database, id)
               /\ Fails(database, id) => results[id] = null

\* Twelve conversations in two batches: the query of conversation 10 is
\* rejected, the summary of conversation 11 raises, and conversations 4 and
\* 12 have their displays.
C17_Witness ==
    /\ BatchReturned
    /\ Len(conversationIds) = 12
    /\ database = 0
    /\ Fails(database, 10) /\ results[10] = null
    /\ Fails(database, 11) /\ results[11] = null
    /\ results[4] # null /\ results[4].conversationId = 4
    /\ results[12] # null /\ results[12].conversationId = 12
    /\ results[4].primaryModel # results[12].primaryModel

\* A fetch is started by this step: its promise is new or replaced.
StartsFetches == batchPromises' # batchPromises /\ Outstanding(batchPromises') # {}
                 /\ \E k \in Outstanding(batchPromises') :
                        k > Len(batchPromises)
                        \/ batchPromises[k].conversationId
                               # batchPromises'[k].conversationId

\* C20: at every moment at most 10 fetches are outstanding, and no fetch of
\* the next batch is started before every member of the batch in flight has
\* settled, whatever the order in which the fetches complete.
C20_AtMostTenOutstanding ==
    /\ [](ctx = "batch" => Cardinality(Outstanding(batchPromises)) <= 10)
    /\ [][(ctx = "batch" /\ StartsFetches) => Outstanding(batchPromises) = {}]_vars

\* Ten fetches are outstanding and two more conversations wait their turn.
C20_Witness ==
    /\ ctx = "batch"
    /\ Len(conversationIds) = 12
    /\ batchStart = 0
    /\ Cardinality(Outstanding(batchPromises)) = 10

\* The second batch is in flight after the ten fetches of the first settled.
C20_WitnessSecondBatch ==
    /\ ctx = "batch"
    /\ Len(conversationIds) = 12
    /\ batchStart = 10
    /\ DOMAIN results = 1..10
    /\ Cardinality(Outstanding(batchPromises)) = 2

\* A query of the input that never settles.
HungInputs == hung \cap InputIds

\* C21: the call eventually returns when every query eventually settles;
\* when one query of a batch never settles, that batch never completes, no
\* later batch is started and the call never returns.
C21_ReturnsUnlessAFetchHangs ==
    /\ (ctx = "batch" /\ pc = "awaitAll" /\ HungInputs = {}) ~> (pc = "returned")
    /\ []((ctx = "batch" /\ HungInputs # {}) =>
              /\ pc # "returned"
              /\ \A h \in HungInputs : batchStart < h)

\* The query of conversation 3 hangs: the other nine of the first batch
\* have settled, and conversations 11 and 12 are never fetched.
C21_Witness ==
    /\ ctx = "batch"
    /\ pc = "awaitAll"
    /\ Len(conversationIds) = 12
    /\ hung = {3}
    /\ batchStart = 0
    /\ Outstanding(batchPromises) = {3}
    /\ results = <<>>

\* The call has returned twelve results: no query hung.
C21_WitnessReturned ==
    /\ BatchReturned
    /\ Len(conversationIds) = 12
    /\ hung = {}
    /\ DOMAIN results = 1..12

\* The display the server's steps arrive at is the one the call gives.
StepwiseAgreesWithCall ==
    (ctx = "server" /\ pc = "done") =>
        IF display = null
        THEN getConversationCostDisplay(0, query, transactions) = null
        ELSE getConversationCostDisplay(0, query, transactions)
                 = [conversationId |-> 0] @@ display

=============================================================================
